---------------------------- MODULE Spec2Model ----------------------------
(***************************************************************************)
(* Model of src/main.py: the GCP caller-validation example script.         *)
(*                                                                         *)
(* The script is one linear sequence of statements.  The model keeps the   *)
(* program position (pc), the Python globals the script binds              *)
(* (credentials, service), the console (out: one entry per print           *)
(* statement executed, named after the statement), the get requests that   *)
(* left the process (requests), what each request's execute() returned or  *)
(* raised (result) and the process exit status.                            *)
(*                                                                         *)
(* A step that calls the SDK draws the call's outcome from a small set:    *)
(* the credential file is good, missing or malformed; discovery.build      *)
(* returns a client or raises; execute() returns a response dict, raises   *)
(* googleapiclient.errors.HttpError with some status, or raises another    *)
(* Exception (transport, auth refresh, ...).                               *)
(***************************************************************************)
EXTENDS Integers, Sequences, FiniteSets

VARIABLES pc, credentials, service, out, requests, result, exit_status

vars == <<pc, credentials, service, out, requests, result, exit_status>>

---------------------------------------------------------------------------
(* Bounds of the model *)

\* Longest 'name' string of a project response, in tokens (see Names).
MaxNameLen == 3

---------------------------------------------------------------------------
(* Strings that are split.  A string is a sequence of tokens: the separator *)
(* "/" or a non-empty piece holding no "/".  Two pieces are never adjacent  *)
(* (they would be one piece), so every Python string over the pieces has    *)
(* exactly one representation.                                              *)

Slash == "/"

Pieces == {"projects", "112233445566", "998877665544"}

Tokens == Pieces \cup {Slash}

Normalized(s) == \A i \in 1..(Len(s) - 1) : s[i] = Slash \/ s[i + 1] = Slash

SeqsUpTo(n) == UNION {[1..k -> Tokens] : k \in 0..n}

Names == {s \in SeqsUpTo(MaxNameLen) : Normalized(s)}

\* str.split("/"): the list of segments between separators ("" when empty).
RECURSIVE Split(_)
Split(s) ==
    IF s = <<>> THEN <<"">>
    ELSE LET front == Split(SubSeq(s, 1, Len(s) - 1))
             last == s[Len(s)]
         IN  IF last = Slash THEN Append(front, "")
             ELSE [front EXCEPT ![Len(front)] = last]

\* list[-1]
Last(l) == l[Len(l)]

\* x in list
InList(x, l) == \E i \in 1..Len(l) : l[i] = x

---------------------------------------------------------------------------
(* Configuration literals of the script *)

project_allow_list == <<"112233445566">>

address_allow_list == <<"34.107.21.167", "34.107.21.168">>

---------------------------------------------------------------------------
(* Outcomes of the SDK calls *)

HttpStatuses == {400, 401, 403, 404, 429, 500, 503}

NoResult == [kind |-> "none"]

Errors == {[kind |-> "HttpError", status |-> s] : s \in HttpStatuses}
              \cup {[kind |-> "Exception"]}

Ok(body) == [kind |-> "ok", body |-> body]

ProjectBodies == {[projectId |-> "my-project", name |-> n] : n \in Names}
                     \cup {[projectId |-> "my-project"]}

AddressBodies == {[name |-> "us-central1-nat-ip01", address |-> a] :
                      a \in {"34.107.21.167", "34.107.21.168", "10.128.0.7", ""}}
                     \cup {[name |-> "us-central1-nat-ip01"]}

ClusterBodies == {[name |-> "cluster-1", status |-> s] :
                      s \in {"RUNNING", "DEGRADED"}}
                     \cup {[name |-> "cluster-1"]}

ProjectResults == {Ok(b) : b \in ProjectBodies} \cup Errors

AddressResults == {Ok(b) : b \in AddressBodies} \cup Errors

ClusterResults == {Ok(b) : b \in ClusterBodies} \cup Errors

Examples == {"project", "address", "cluster"}

---------------------------------------------------------------------------
(* The state after the imports and before line 23 *)

Init ==
    /\ pc = "load_credentials"
    /\ credentials = "unset"
    /\ service = "unset"
    /\ out = <<>>
    /\ requests = <<>>
    /\ result = [e \in Examples |-> NoResult]
    /\ exit_status = <<>>

\* exit(1)
Exit1 ==
    /\ pc' = "exited"
    /\ exit_status' = <<1>>

---------------------------------------------------------------------------
(* Lines 23-33: load the service account credentials *)

\* LoadCredentials with the exit(1) of the second except clause left out.
LoadCredentials_ContinuesOnError ==
    /\ pc = "load_credentials"
    /\ \E r \in {"ok", "FileNotFoundError", "Exception"} :
          CASE r = "ok" ->
                  /\ credentials' = "loaded"
                  /\ out' = Append(out, "CredentialsLoaded")
                  /\ pc' = "build_cloudresourcemanager"
                  /\ exit_status' = exit_status
            [] r = "FileNotFoundError" ->
                  /\ credentials' = credentials
                  /\ out' = Append(out, "ErrKeyFileNotFound")
                  /\ Exit1
            [] r = "Exception" ->
                  /\ credentials' = credentials
                  /\ out' = Append(out, "ErrCouldNotLoadCredentials")
                  /\ pc' = "build_cloudresourcemanager"
                  /\ exit_status' = exit_status
    /\ UNCHANGED <<service, requests, result>>

LoadCredentials ==
    /\ pc = "load_credentials"
    /\ \E r \in {"ok", "FileNotFoundError", "Exception"} :
          CASE r = "ok" ->
                  /\ credentials' = "loaded"
                  /\ out' = Append(out, "CredentialsLoaded")
                  /\ pc' = "build_cloudresourcemanager"
                  /\ exit_status' = exit_status
            [] r = "FileNotFoundError" ->
                  /\ credentials' = credentials
                  /\ out' = Append(out, "ErrKeyFileNotFound")
                  /\ Exit1
            [] r = "Exception" ->
                  /\ credentials' = credentials
                  /\ out' = Append(out, "ErrCouldNotLoadCredentials")
                  /\ Exit1
    /\ UNCHANGED <<service, requests, result>>

---------------------------------------------------------------------------
(* Lines 56-60, 119-123, 185-189: build an API client *)

BuildErr(api) == "ErrCouldNotBuildClient_" \o api

\* try: service = discovery.build(api, ...)  except Exception: print; exit(1)
BuildClient(at, api, next) ==
    /\ pc = at
    /\ \E ok \in BOOLEAN :
          IF ok
          THEN /\ service' = api
               /\ pc' = next
               /\ UNCHANGED <<out, exit_status>>
          ELSE /\ service' = service
               /\ out' = Append(out, BuildErr(api))
               /\ Exit1
    /\ UNCHANGED <<credentials, requests, result>>

BuildResourceManagerClient ==
    BuildClient("build_cloudresourcemanager", "cloudresourcemanager", "describe_project")

BuildComputeClient ==
    BuildClient("build_compute", "compute", "get_address")

BuildContainerClient ==
    BuildClient("build_container", "container", "get_cluster")

---------------------------------------------------------------------------
(* The first half of each try block: print the header line, build the      *)
(* request and call execute(), which blocks on the HTTP response.          *)

SendRequest(at, header, method, next) ==
    /\ pc = at
    /\ out' = Append(out, header)
    /\ requests' = Append(requests, method)
    /\ pc' = next
    /\ UNCHANGED <<credentials, service, result, exit_status>>

\* lines 64-68 (up to the call of execute)
DescribeProjectRequest ==
    SendRequest("describe_project", "DescribingProject",
                "cloudresourcemanager.projects.get", "describe_project_wait")

\* lines 127-133
GetAddressRequest ==
    SendRequest("get_address", "LookingUpAddress",
                "compute.addresses.get", "get_address_wait")

\* lines 194-198
GetClusterRequest ==
    SendRequest("get_cluster", "LookingUpCluster",
                "container.projects.locations.clusters.get", "get_cluster_wait")

---------------------------------------------------------------------------
(* The second half of each try block and its except clauses: what is       *)
(* printed once execute() has returned res or raised it.                   *)

ProjectFailure ==
    <<"FailedDescribeProject", "PossibleReasons", "HintPermission",
      "HintProjectId", "HintApiEnabled">>

ProjectDescription ==
    <<"ProjectDescriptionBegin", "ProjectJson", "ProjectDescriptionEnd">>

\* ProjectOutput taking the first segment of the name, not the last.
ProjectOutput_FirstSegment(res) ==
    IF res.kind = "ok"
    THEN IF "name" \in DOMAIN res.body
         THEN LET project_number == Split(res.body.name)[1]
              IN  ProjectDescription \o
                     (IF InList(project_number, project_allow_list)
                      THEN <<"FoundProjectNumber">>
                      ELSE <<"ProjectNotInAllowList">>)
         ELSE ProjectDescription \o ProjectFailure
    ELSE ProjectFailure

\* ProjectOutput with the hints printed only when the error is no HTTP 404.
ProjectOutput_NoHintsOn404(res) ==
    IF res.kind = "ok"
    THEN IF "name" \in DOMAIN res.body
         THEN LET project_number == Last(Split(res.body.name))
              IN  ProjectDescription \o
                     (IF InList(project_number, project_allow_list)
                      THEN <<"FoundProjectNumber">>
                      ELSE <<"ProjectNotInAllowList">>)
         ELSE ProjectDescription \o ProjectFailure
    ELSE IF res.kind = "HttpError" /\ res.status = 404
         THEN <<"FailedDescribeProject">>
         ELSE ProjectFailure

\* ProjectOutput with the else of the allow-list check lost: the 'not found'
\* line is printed after the 'found' line too.
ProjectOutput_NoElse(res) ==
    IF res.kind = "ok"
    THEN IF "name" \in DOMAIN res.body
         THEN LET project_number == Last(Split(res.body.name))
              IN  ProjectDescription \o
                     (IF InList(project_number, project_allow_list)
                      THEN <<"FoundProjectNumber">>
                      ELSE <<>>)
                     \o <<"ProjectNotInAllowList">>
         ELSE ProjectDescription \o ProjectFailure
    ELSE ProjectFailure

\* lines 68-89
ProjectOutput(res) ==
    IF res.kind = "ok"
    THEN IF "name" \in DOMAIN res.body
         THEN LET project_number == Last(Split(res.body.name))
              IN  ProjectDescription \o
                     (IF InList(project_number, project_allow_list)
                      THEN <<"FoundProjectNumber">>
                      ELSE <<"ProjectNotInAllowList">>)
         \* response.get("name") is None: None.split raises AttributeError,
         \* which the except Exception clause catches
         ELSE ProjectDescription \o ProjectFailure
    ELSE ProjectFailure

\* HttpErrorMessage with the messages of 403 and 404 exchanged.
HttpErrorMessage_Swapped(prefix, status) ==
    IF status = 403 THEN prefix \o "ResourceNotFound"
    ELSE IF status = 404 THEN prefix \o "PermissionDenied"
    ELSE prefix \o "HttpErrorOccurred"

\* lines 146-155 and 205-210: the branches on e.resp.status
HttpErrorMessage(prefix, status) ==
    IF status = 403 THEN prefix \o "PermissionDenied"
    ELSE IF status = 404 THEN prefix \o "ResourceNotFound"
    ELSE prefix \o "HttpErrorOccurred"

\* the except clauses of the address and cluster examples
ErrorOutput(prefix, res) ==
    IF res.kind = "HttpError"
    THEN <<HttpErrorMessage(prefix, res.status)>>
    ELSE <<prefix \o "FailedToGet">>

AddressDetails ==
    <<"AddressDetailsBegin", "AddressJson", "AddressDetailsEnd">>

\* AddressOutput reading response["address"], which raises KeyError when the
\* field is missing.
AddressOutput_Subscript(res) ==
    IF res.kind = "ok"
    THEN IF "address" \in DOMAIN res.body
         THEN AddressDetails \o
                 (IF InList(res.body.address, address_allow_list)
                  THEN <<"FoundIPAddress">>
                  ELSE <<"AddressNotInAllowList">>)
         ELSE AddressDetails \o <<"AddressFailedToGet">>
    ELSE ErrorOutput("Address", res)

\* lines 133-157
AddressOutput(res) ==
    IF res.kind = "ok"
    THEN AddressDetails \o
            (IF "address" \in DOMAIN res.body
                  /\ InList(res.body.address, address_allow_list)
             THEN <<"FoundIPAddress">>
             ELSE <<"AddressNotInAllowList">>)
    ELSE ErrorOutput("Address", res)

ClusterDetails ==
    <<"ClusterDetailsBegin", "ClusterJson", "ClusterDetailsEnd">>

\* ClusterOutput with the allow-list check of the address example copied in.
ClusterOutput_WithAllowList(res) ==
    IF res.kind = "ok"
    THEN ClusterDetails \o
            (IF "address" \in DOMAIN res.body
                  /\ InList(res.body.address, address_allow_list)
             THEN <<"FoundIPAddress">>
             ELSE <<"AddressNotInAllowList">>)
    ELSE ErrorOutput("Cluster", res)

\* lines 198-212
ClusterOutput(res) ==
    IF res.kind = "ok"
    THEN ClusterDetails
    ELSE ErrorOutput("Cluster", res)

\* ProjectNext with an exit(1) at the end of the except clause.
ProjectNext_ExitOnFailure(res) ==
    IF res.kind = "ok" THEN "build_compute" ELSE "exited"

\* AddressNext with an exit(1) at the end of the except clauses.
AddressNext_ExitOnFailure(res) ==
    IF res.kind = "ok" THEN "build_container" ELSE "exited"

\* AddressNext with the request tried again after a failure.
AddressNext_RetryOnFailure(res) ==
    IF res.kind = "ok" THEN "build_container" ELSE "get_address"

\* Where control goes when a try statement is left: the statement after it.
ProjectNext(res) == "build_compute"

AddressNext(res) == "build_container"

ClusterNext(res) == "done"

Receive(at, example, res, printed, next) ==
    /\ pc = at
    /\ result' = [result EXCEPT ![example] = res]
    /\ out' = out \o printed
    /\ pc' = next
    \* falling off the end of the script ends the process with status 0
    /\ exit_status' = IF next = "done" THEN <<0>>
                      ELSE IF next = "exited" THEN <<1>>
                      ELSE exit_status
    /\ UNCHANGED <<credentials, service, requests>>

DescribeProjectResponse ==
    \E res \in ProjectResults :
        Receive("describe_project_wait", "project", res,
                ProjectOutput(res), ProjectNext(res))

GetAddressResponse ==
    \E res \in AddressResults :
        Receive("get_address_wait", "address", res,
                AddressOutput(res), AddressNext(res))

GetClusterResponse ==
    \E res \in ClusterResults :
        Receive("get_cluster_wait", "cluster", res,
                ClusterOutput(res), ClusterNext(res))

---------------------------------------------------------------------------

Next ==
    \/ LoadCredentials
    \/ BuildResourceManagerClient
    \/ DescribeProjectRequest
    \/ DescribeProjectResponse
    \/ BuildComputeClient
    \/ GetAddressRequest
    \/ GetAddressResponse
    \/ BuildContainerClient
    \/ GetClusterRequest
    \/ GetClusterResponse

Spec == Init /\ [][Next]_vars

---------------------------------------------------------------------------
(* Observations on a state, used to state the properties *)

Printed(m) == \E i \in 1..Len(out) : out[i] = m

Min(S) == CHOOSE x \in S : \A y \in S : x <= y

\* What was printed after header h and before the first message of stops.
Segment(h, stops) ==
    IF ~Printed(h) THEN <<>>
    ELSE LET i == Min({k \in 1..Len(out) : out[k] = h})
             ends == {j \in (i + 1)..Len(out) : out[j] \in stops}
             e == IF ends = {} THEN Len(out) ELSE Min(ends) - 1
         IN  SubSeq(out, i + 1, e)

ProjectSegment ==
    Segment("DescribingProject", {"ErrCouldNotBuildClient_compute", "LookingUpAddress"})

AddressSegment ==
    Segment("LookingUpAddress", {"ErrCouldNotBuildClient_container", "LookingUpCluster"})

ClusterSegment == Segment("LookingUpCluster", {})

SegmentOf(e) ==
    CASE e = "project" -> ProjectSegment
      [] e = "address" -> AddressSegment
      [] e = "cluster" -> ClusterSegment

Has(s, m) == \E i \in 1..Len(s) : s[i] = m

CountIn(s, S) == Cardinality({i \in 1..Len(s) : s[i] \in S})

\* execute() of the example has returned or raised, and the block has printed
Handled(e) == result[e].kind # "none"

Succeeded(e) == result[e].kind = "ok"

Failed(e) == Handled(e) /\ ~Succeeded(e)

Terminated == pc \in {"done", "exited"}

Requested(method) == \E i \in 1..Len(requests) : requests[i] = method

CredentialLoadFailed ==
    Printed("ErrKeyFileNotFound") \/ Printed("ErrCouldNotLoadCredentials")

BuildFailed(api) == Printed("ErrCouldNotBuildClient_" \o api)

\* discovery.build(api) was called: the example of that api has started
BuildAttempted(api) ==
    \/ BuildFailed(api)
    \/ api = "cloudresourcemanager" /\ service # "unset"
    \/ api = "compute" /\ service \in {"compute", "container"}
    \/ api = "container" /\ service = "container"

FoundMessages == {"FoundProjectNumber", "FoundIPAddress"}

NotFoundMessages == {"ProjectNotInAllowList", "AddressNotInAllowList"}

ErrorDiagnostics ==
    {"FailedDescribeProject",
     "AddressPermissionDenied", "AddressResourceNotFound",
     "AddressHttpErrorOccurred", "AddressFailedToGet",
     "ClusterPermissionDenied", "ClusterResourceNotFound",
     "ClusterHttpErrorOccurred", "ClusterFailedToGet"}

\* The last "/"-separated segment of a string, said without splitting it:
\* what follows the last "/" (nothing, when the string is empty or ends in "/").
LastSegment(s) ==
    IF s = <<>> \/ s[Len(s)] = Slash THEN "" ELSE s[Len(s)]

AllRequests ==
    <<"cloudresourcemanager.projects.get", "compute.addresses.get",
      "container.projects.locations.clusters.get">>

---------------------------------------------------------------------------
(* C1 *)

\* C1: a client is built or a request is issued only with the credential
\* loaded; a failed credential load ends the process with exit status 1, no
\* client built and no request issued.
C1_CredentialBeforeAnyCall ==
    /\ (service # "unset" \/ requests # <<>>) => credentials = "loaded"
    /\ CredentialLoadFailed =>
          /\ pc = "exited"
          /\ exit_status = <<1>>
          /\ service = "unset"
          /\ requests = <<>>

\* The key file is missing and the process has ended.
C1_Witness ==
    /\ Printed("ErrKeyFileNotFound")
    /\ pc = "exited"
    /\ credentials = "unset"

---------------------------------------------------------------------------
(* C2 *)

\* The project example failed: its request raised, or its check said
\* 'not found'.
ProjectExampleFailed ==
    Failed("project") \/ Has(ProjectSegment, "ProjectNotInAllowList")

AddressExampleFailed ==
    Failed("address") \/ Has(AddressSegment, "AddressNotInAllowList")

\* C2 as stated: once the run is over, a failed project example was followed
\* by the address and the cluster example, and a failed address example by
\* the cluster example (an example counts as executed as soon as it has
\* started, that is, the build of its client was attempted).
C2_FailureNeverPreventsLaterExamples ==
    Terminated =>
        /\ ProjectExampleFailed =>
              BuildAttempted("compute") /\ BuildAttempted("container")
        /\ AddressExampleFailed => BuildAttempted("container")

\* C2, amended: a failed example is always followed by the start of the next
\* one (the build of its client); the later requests are issued unless the
\* build of a client fails, which ends the process with exit status 1.
C2_FailureIsFollowedByNextExample ==
    /\ ProjectExampleFailed =>
          /\ pc = "build_compute" \/ BuildAttempted("compute")
          /\ Terminated =>
                /\ Requested("compute.addresses.get") \/ BuildFailed("compute")
                /\ \/ Requested("container.projects.locations.clusters.get")
                   \/ BuildFailed("compute")
                   \/ BuildFailed("container")
    /\ AddressExampleFailed =>
          /\ pc = "build_container" \/ BuildAttempted("container")
          /\ Terminated =>
                \/ Requested("container.projects.locations.clusters.get")
                \/ BuildFailed("container")
    /\ (BuildFailed("compute") \/ BuildFailed("container")) =>
          pc = "exited" /\ exit_status = <<1>>

\* The project request raised, the address request raised, and the cluster
\* request was still issued.
C2_Witness ==
    /\ Failed("project")
    /\ Failed("address")
    /\ Requested("container.projects.locations.clusters.get")
    /\ pc = "done"

---------------------------------------------------------------------------
(* C3 *)

\* C3 as stated: only a credential-load failure ends the process early; with
\* the credential loaded the run attempts all three examples.
C3_OnlyCredentialFailureIsFatal ==
    /\ pc = "exited" => CredentialLoadFailed
    /\ (credentials = "loaded" /\ Terminated) => requests = AllRequests

\* C3, amended: the process ends early (exit status 1) exactly on a
\* credential-load failure or on the failure of one of the three client
\* builds, the error being the last line printed; a failed get request is
\* never fatal; a run with the credential loaded and no build failure never
\* stops before the end and issues all three requests.
C3_FatalConditions ==
    /\ pc = "exited" =>
          /\ exit_status = <<1>>
          /\ out # <<>>
          /\ Last(out) \in {"ErrKeyFileNotFound", "ErrCouldNotLoadCredentials",
                            "ErrCouldNotBuildClient_cloudresourcemanager",
                            "ErrCouldNotBuildClient_compute",
                            "ErrCouldNotBuildClient_container"}
    /\ \A e \in Examples : Failed(e) => CountIn(SegmentOf(e), ErrorDiagnostics) = 1
    /\ pc = "done" => requests = AllRequests /\ exit_status = <<0>>
    /\ ~Terminated => ENABLED Next

\* The credential was loaded, a get request failed and was survived, and the
\* run then ended early on a client build failure.
C3_Witness ==
    /\ credentials = "loaded"
    /\ Failed("project")
    /\ pc = "exited"
    /\ BuildFailed("container")

---------------------------------------------------------------------------
(* C4 *)

ProjectCheck ==
    (Succeeded("project") /\ "name" \in DOMAIN result["project"].body) =>
        LET F == LastSegment(result["project"].body.name)
        IN  IF InList(F, project_allow_list)
            THEN /\ Has(ProjectSegment, "FoundProjectNumber")
                 /\ ~Has(ProjectSegment, "ProjectNotInAllowList")
            ELSE /\ Has(ProjectSegment, "ProjectNotInAllowList")
                 /\ ~Has(ProjectSegment, "FoundProjectNumber")

AddressCheck ==
    (Succeeded("address") /\ "address" \in DOMAIN result["address"].body) =>
        LET F == result["address"].body.address
        IN  IF F \in {"34.107.21.167", "34.107.21.168"}
            THEN /\ Has(AddressSegment, "FoundIPAddress")
                 /\ ~Has(AddressSegment, "AddressNotInAllowList")
            ELSE /\ Has(AddressSegment, "AddressNotInAllowList")
                 /\ ~Has(AddressSegment, "FoundIPAddress")

\* C4 as stated: all three validators, the cluster validator included, answer
\* a successful response with a 'found' or a 'not found' message.
C4_AllThreeValidatorsCheckAllowList ==
    /\ ProjectCheck
    /\ AddressCheck
    /\ Succeeded("cluster") =>
          CountIn(ClusterSegment, FoundMessages \cup NotFoundMessages) = 1

\* C4, amended: the project and the address validator print 'found' and not
\* 'not found' when the checked field is in their allow-list, and the reverse
\* when it is not; the cluster validator prints neither message.
C4_ProjectAndAddressCheckAllowList ==
    /\ ProjectCheck
    /\ AddressCheck
    /\ Succeeded("cluster") =>
          CountIn(ClusterSegment, FoundMessages \cup NotFoundMessages) = 0

\* A run with a project number in the allow-list, an address outside it and a
\* cluster that was found.
C4_Witness ==
    /\ Succeeded("project")
    /\ "name" \in DOMAIN result["project"].body
    /\ result["project"].body.name = <<"projects", "/", "112233445566">>
    /\ Succeeded("address")
    /\ "address" \in DOMAIN result["address"].body
    /\ result["address"].body.address = "10.128.0.7"
    /\ Succeeded("cluster")

---------------------------------------------------------------------------
(* C5 *)

ExpectedError(prefix, res) ==
    CASE res.kind = "Exception" -> prefix \o "FailedToGet"
      [] res.kind = "HttpError" /\ res.status = 403 -> prefix \o "PermissionDenied"
      [] res.kind = "HttpError" /\ res.status = 404 -> prefix \o "ResourceNotFound"
      [] res.kind = "HttpError" /\ res.status \notin {403, 404} ->
             prefix \o "HttpErrorOccurred"

\* C5: a failed address or cluster request prints exactly one line: the
\* permission-denied message on 403, the resource-not-found message on 404,
\* the generic HTTP error message on any other status, and the 'Failed to
\* get' message when the error is no HTTP error.
C5_ErrorClassification ==
    /\ Failed("address") =>
          AddressSegment = <<ExpectedError("Address", result["address"])>>
    /\ Failed("cluster") =>
          ClusterSegment = <<ExpectedError("Cluster", result["cluster"])>>

\* The address request was refused with 403 and the cluster request failed
\* with a status that is neither 403 nor 404.
C5_Witness ==
    /\ Failed("address")
    /\ result["address"] = [kind |-> "HttpError", status |-> 403]
    /\ Failed("cluster")
    /\ result["cluster"] = [kind |-> "HttpError", status |-> 401]

---------------------------------------------------------------------------
(* C6 *)

\* C6: whatever error the get-project request raises, the project example
\* prints the 'Failed to describe project' line and the same three hints, and
\* control goes on to the address example (the build of the compute client).
C6_ProjectErrorsAreUniform ==
    Failed("project") =>
        /\ ProjectSegment = <<"FailedDescribeProject", "PossibleReasons",
                              "HintPermission", "HintProjectId", "HintApiEnabled">>
        /\ pc = "build_compute" \/ BuildAttempted("compute")
        /\ pc = "exited" => BuildFailed("compute") \/ BuildFailed("container")

\* The get-project request was refused with 403 and the address example has
\* started.
C6_Witness ==
    /\ result["project"] = [kind |-> "HttpError", status |-> 403]
    /\ pc = "get_address"

---------------------------------------------------------------------------
(* C7 *)

\* C7: the cluster example prints the cluster details, and nothing else, on
\* every successful response, and one error line, and nothing else, on every
\* failure: no 'found' or 'not found' message either way.
C7_ClusterReportsSuccessOrFailureOnly ==
    /\ Succeeded("cluster") =>
          ClusterSegment = <<"ClusterDetailsBegin", "ClusterJson", "ClusterDetailsEnd">>
    /\ Failed("cluster") =>
          /\ Len(ClusterSegment) = 1
          /\ ClusterSegment[1] \in ErrorDiagnostics
    /\ Handled("cluster") =>
          CountIn(ClusterSegment, FoundMessages \cup NotFoundMessages) = 0

\* A cluster was described whose response says it is degraded.
C7_Witness ==
    /\ Succeeded("cluster")
    /\ result["cluster"].body = [name |-> "cluster-1", status |-> "DEGRADED"]

---------------------------------------------------------------------------
(* C8 *)

ProjectVerdicts ==
    {"FoundProjectNumber", "ProjectNotInAllowList", "FailedDescribeProject"}

AddressVerdicts ==
    {"FoundIPAddress", "AddressNotInAllowList", "AddressPermissionDenied",
     "AddressResourceNotFound", "AddressHttpErrorOccurred", "AddressFailedToGet"}

ClusterVerdicts ==
    {"ClusterDetailsBegin", "ClusterPermissionDenied", "ClusterResourceNotFound",
     "ClusterHttpErrorOccurred", "ClusterFailedToGet"}

\* C8: the requests issued so far are the first ones of project, address,
\* cluster, in that order and once each; the address request is issued with
\* the project's outcome already printed and the cluster request with the
\* address's; a run that reaches the end has issued all three.
C8_RequestsInOrderOnceEach ==
    /\ Len(requests) <= 3
    /\ requests = SubSeq(AllRequests, 1, Len(requests))
    /\ Len(requests) >= 2 =>
          Handled("project") /\ CountIn(ProjectSegment, ProjectVerdicts) = 1
    /\ Len(requests) >= 3 =>
          Handled("address") /\ CountIn(AddressSegment, AddressVerdicts) = 1
    /\ pc = "done" => requests = AllRequests

\* The run ended after a failed address request: three requests, no retry.
C8_Witness ==
    /\ pc = "done"
    /\ Failed("address")
    /\ Len(requests) = 3

---------------------------------------------------------------------------
(* C9 *)

\* C9: a project response without 'name' gets the description and then the
\* error handler's lines, with no allow-list message; an address response
\* without 'address' gets the details and the 'not found' message, with no
\* error line; either way control goes on to the next example.
C9_MissingField ==
    /\ (Succeeded("project") /\ "name" \notin DOMAIN result["project"].body) =>
          /\ ProjectSegment =
                <<"ProjectDescriptionBegin", "ProjectJson", "ProjectDescriptionEnd",
                  "FailedDescribeProject", "PossibleReasons",
                  "HintPermission", "HintProjectId", "HintApiEnabled">>
          /\ pc = "build_compute" \/ BuildAttempted("compute")
    /\ (Succeeded("address") /\ "address" \notin DOMAIN result["address"].body) =>
          /\ AddressSegment =
                <<"AddressDetailsBegin", "AddressJson", "AddressDetailsEnd",
                  "AddressNotInAllowList">>
          /\ pc = "build_container" \/ BuildAttempted("container")

\* Both responses lacked their field, and the cluster example has started.
C9_Witness ==
    /\ Succeeded("project")
    /\ "name" \notin DOMAIN result["project"].body
    /\ Succeeded("address")
    /\ "address" \notin DOMAIN result["address"].body
    /\ pc = "get_cluster"

---------------------------------------------------------------------------
(* C10 *)

Verdicts == ProjectVerdicts \cup AddressVerdicts \cup ClusterVerdicts

\* C10: an example whose request has returned has printed exactly one
\* verdict, one of its own, and an example whose request has not returned has
\* printed none; no example prints a 'found' message and an error diagnostic;
\* a run that reaches the end exits with status 0 whatever the verdicts.
C10_OneVerdictPerExample ==
    /\ \A e \in Examples :
          /\ CountIn(SegmentOf(e), Verdicts) = IF Handled(e) THEN 1 ELSE 0
          /\ ~(/\ CountIn(SegmentOf(e), FoundMessages) > 0
               /\ CountIn(SegmentOf(e), ErrorDiagnostics) > 0)
    /\ CountIn(ProjectSegment, ProjectVerdicts) = CountIn(ProjectSegment, Verdicts)
    /\ CountIn(AddressSegment, AddressVerdicts) = CountIn(AddressSegment, Verdicts)
    /\ CountIn(ClusterSegment, ClusterVerdicts) = CountIn(ClusterSegment, Verdicts)
    /\ CountIn(out, Verdicts) = Cardinality({e \in Examples : Handled(e)})
    /\ pc = "done" => exit_status = <<0>>

\* A finished run with one verdict of each kind: not found, found, error.
C10_Witness ==
    /\ pc = "done"
    /\ Has(ProjectSegment, "ProjectNotInAllowList")
    /\ Has(AddressSegment, "FoundIPAddress")
    /\ Failed("cluster")

=============================================================================
